---- MODULE Spec2Model ----
(***************************************************************************)
(* State-machine model of the ICPC scoreboard engine of src/main.cpp       *)
(* (class ICPCSystem and the command loop of main).  One action per        *)
(* command; scroll is split at the iterations of its while(true) loop,     *)
(* during which no other command can run (pc = "scroll").                  *)
(***************************************************************************)
EXTENDS Integers, Sequences, FiniteSets, TLC

(* ------------------------------ inputs --------------------------------- *)

\* std::string's operator< on the team names: the names in ascending order.
NameOrder == <<"a", "b", "c">>

\* Team names the command stream uses.  No name is registered at Init, so a
\* SUBMIT may name a team that never was.
Names == {"a", "b"}

\* string(1, 'A' + i) for i = 0, 1, 2, ...
Letters == <<"A", "B", "C", "D">>

\* Problem identifiers a SUBMIT line may name.
SubmitProblems == {"A", "B"}

\* Problem filters and status filters of QUERY_SUBMISSION.
Statuses == {"Accepted", "Wrong_Answer"}

\* The (status, time) pairs a SUBMIT line carries.  A time matters to the
\* engine only for an Accepted submission; 21 = 1 + the penalty of one
\* wrong attempt, so that penalties can tie on different solve times.
SubmitCases == {<<"Accepted", 1>>, <<"Accepted", 21>>, <<"Wrong_Answer", 1>>}

Durations == {300}

\* Bound on the number of SUBMIT commands of a run.
MaxSubs == 2

\* Bound on the problem count given to START.
MaxProblems == 2

\* Problem counts a START line carries.
ProblemCounts == {1, MaxProblems}

\* Penalty minutes per wrong attempt.
PenaltyPerWrong == 20

(* ------------------------------ state ---------------------------------- *)

VARIABLES
    teams,        \* map<string, Team>
    teamNames,    \* vector<string>
    started,
    frozen,
    durationTime,
    problemCount,
    problemList,  \* vector<string>
    lastRanking,  \* vector<pair<string, int>>
    pc,           \* "idle" | "scroll" (inside scroll's loop) | "ended"
    steps,        \* iterations of scroll's loop completed in the running scroll
    out           \* what the last command printed

engine == <<teams, teamNames, started, frozen, durationTime, problemCount,
            problemList, lastRanking>>

vars == <<teams, teamNames, started, frozen, durationTime, problemCount,
          problemList, lastRanking, pc, steps, out>>

(* ------------------------------ records -------------------------------- *)

Submission(problem, status, time) ==
    [problem |-> problem, status |-> status, time |-> time]

ProblemStatus ==
    [solved |-> FALSE, solveTime |-> 0, wrongAttempts |-> 0,
     frozenSubs |-> <<>>, wasSolvedBeforeFreeze |-> FALSE]

Team(n) == [name |-> n, problems |-> <<>>, submissions |-> <<>>]

\* map::operator[] / insertion: the map f with key k bound to v.
Put(f, k, v) == (k :> v) @@ f

\* map::operator[] as an rvalue on a key that may be absent.
TeamAt(tms, n) == IF n \in DOMAIN tms THEN tms[n] ELSE Team("")

Output(msg, team, other, status, x, y) ==
    [msg |-> msg, team |-> team, other |-> other, status |-> status,
     x |-> x, y |-> y]

Line(msg) == Output(msg, "", "", "", 0, 0)

RangeOf(s) == {s[i] : i \in 1..Len(s)}

NameIndex(n) == CHOOSE i \in 1..Len(NameOrder) : NameOrder[i] = n

(* ------------------------------ ranking -------------------------------- *)

\* sort(info.times.rbegin(), info.times.rend()): descending order.
RECURSIVE InsertDesc(_, _)
InsertDesc(x, s) ==
    IF s = <<>> THEN <<x>>
    ELSE IF x >= Head(s) THEN <<x>> \o s
    ELSE <<Head(s)>> \o InsertDesc(x, Tail(s))

RECURSIVE SortDesc(_)
SortDesc(s) == IF s = <<>> THEN <<>> ELSE InsertDesc(Head(s), SortDesc(Tail(s)))

\* The loop of getTeamRankInfo over problemList, from index i on.
RECURSIVE rankInfoLoop(_, _, _, _)
rankInfoLoop(t, plist, i, info) ==
    IF i > Len(plist) THEN info
    ELSE LET prob == plist[i] IN
         IF prob \in DOMAIN t.problems
            /\ t.problems[prob].solved
            /\ t.problems[prob].wasSolvedBeforeFreeze
         THEN LET ps == t.problems[prob] IN
              rankInfoLoop(t, plist, i + 1,
                  [info EXCEPT
                      !.solved = @ + 1,
                      !.penalty = @ + ps.solveTime + PenaltyPerWrong * ps.wrongAttempts,
                      !.times = Append(@, ps.solveTime)])
         ELSE rankInfoLoop(t, plist, i + 1, info)

getTeamRankInfo(tms, plist, teamName) ==
    LET info == rankInfoLoop(TeamAt(tms, teamName), plist, 1,
                    [name |-> teamName, solved |-> 0, penalty |-> 0, times |-> <<>>])
    IN [info EXCEPT !.times = SortDesc(@)]

\* vector<int>::operator<: lexicographic, a proper prefix is smaller.
RECURSIVE VecLess(_, _)
VecLess(s, t) ==
    IF t = <<>> THEN FALSE
    ELSE IF s = <<>> THEN TRUE
    ELSE IF Head(s) # Head(t) THEN Head(s) < Head(t)
    ELSE VecLess(Tail(s), Tail(t))

\* rankLess without the comparison of the solve-time sequences.
rankLessIgnoringTimes(ta, tb) ==
    IF ta.solved # tb.solved THEN ta.solved > tb.solved
    ELSE IF ta.penalty # tb.penalty THEN ta.penalty < tb.penalty
    ELSE NameIndex(ta.name) < NameIndex(tb.name)

\* rankLess with the comparison of the solved counts turned round.
rankLessFewerSolvedFirst(ta, tb) ==
    IF ta.solved # tb.solved THEN ta.solved < tb.solved
    ELSE IF ta.penalty # tb.penalty THEN ta.penalty < tb.penalty
    ELSE IF ta.times # tb.times THEN VecLess(ta.times, tb.times)
    ELSE NameIndex(ta.name) < NameIndex(tb.name)

\* The comparator of calculateRanking's sort.
rankLess(ta, tb) ==
    IF ta.solved # tb.solved THEN ta.solved > tb.solved
    ELSE IF ta.penalty # tb.penalty THEN ta.penalty < tb.penalty
    ELSE IF ta.times # tb.times THEN VecLess(ta.times, tb.times)
    ELSE NameIndex(ta.name) < NameIndex(tb.name)

\* std::sort of the infos under the comparator.
RECURSIVE InsertInfo(_, _)
InsertInfo(x, s) ==
    IF s = <<>> THEN <<x>>
    ELSE IF rankLess(x, Head(s)) THEN <<x>> \o s
    ELSE <<Head(s)>> \o InsertInfo(x, Tail(s))

RECURSIVE SortInfos(_)
SortInfos(s) == IF s = <<>> THEN <<>> ELSE InsertInfo(Head(s), SortInfos(Tail(s)))

calculateRanking(tms, names, plist) ==
    LET infos == [i \in 1..Len(names) |-> getTeamRankInfo(tms, plist, names[i])]
        sorted == SortInfos(infos)
    IN [i \in 1..Len(sorted) |-> [first |-> sorted[i].name, second |-> i]]

\* The scan "for p in ranking: if p.first == name: rank = p.second; break",
\* with rank initialised to 0.
RankIn(ranking, name) ==
    IF \E i \in 1..Len(ranking) : ranking[i].first = name
    THEN ranking[CHOOSE i \in 1..Len(ranking) :
                    /\ ranking[i].first = name
                    /\ \A j \in 1..(i - 1) : ranking[j].first # name].second
    ELSE 0

(* ------------------------------ commands ------------------------------- *)

Init ==
    /\ teams = <<>>
    /\ teamNames = <<>>
    /\ started = FALSE
    /\ frozen = FALSE
    /\ durationTime = 0
    /\ problemCount = 0
    /\ problemList = <<>>
    /\ lastRanking = <<>>
    /\ pc = "idle"
    /\ steps = 0
    /\ out = Line("")

\* addTeam without its duplicate-name check.
addTeamNoDuplicateCheck(name) ==
    /\ pc = "idle"
    /\ IF started
       THEN /\ out' = Line("[Error]Add failed: competition has started.")
            /\ UNCHANGED engine
       ELSE /\ teams' = Put(teams, name, Team(name))
            /\ teamNames' = Append(teamNames, name)
            /\ out' = Line("[Info]Add successfully.")
            /\ UNCHANGED <<started, frozen, durationTime, problemCount,
                           problemList, lastRanking>>
    /\ UNCHANGED <<pc, steps>>

addTeam(name) ==
    /\ pc = "idle"
    /\ IF started
       THEN /\ out' = Line("[Error]Add failed: competition has started.")
            /\ UNCHANGED engine
       ELSE IF name \in DOMAIN teams
       THEN /\ out' = Line("[Error]Add failed: duplicated team name.")
            /\ UNCHANGED engine
       ELSE /\ teams' = Put(teams, name, Team(name))
            /\ teamNames' = Append(teamNames, name)
            /\ out' = Line("[Info]Add successfully.")
            /\ UNCHANGED <<started, frozen, durationTime, problemCount,
                           problemList, lastRanking>>
    /\ UNCHANGED <<pc, steps>>

start(duration, problems) ==
    /\ pc = "idle"
    /\ IF started
       THEN /\ out' = Line("[Error]Start failed: competition has started.")
            /\ UNCHANGED engine
       ELSE /\ started' = TRUE
            /\ durationTime' = duration
            /\ problemCount' = problems
            /\ problemList' = problemList \o [i \in 1..problems |-> Letters[i]]
            /\ out' = Line("[Info]Competition starts.")
            /\ UNCHANGED <<teams, teamNames, frozen, lastRanking>>
    /\ UNCHANGED <<pc, steps>>

\* submitStatus without the freeze branch: a submission is applied at once.
submitStatusIgnoringFreeze(ps, fr, problem, status, time) ==
    IF ~ps.solved
    THEN IF status = "Accepted"
         THEN [ps EXCEPT !.solved = TRUE, !.solveTime = time,
                         !.wasSolvedBeforeFreeze = TRUE]
         ELSE [ps EXCEPT !.wrongAttempts = @ + 1]
    ELSE ps

\* submitStatus queueing every submission made while the board is frozen.
submitStatusAlwaysQueueing(ps, fr, problem, status, time) ==
    IF fr
    THEN [ps EXCEPT !.frozenSubs = Append(@, Submission(problem, status, time))]
    ELSE IF ~ps.solved
    THEN IF status = "Accepted"
         THEN [ps EXCEPT !.solved = TRUE, !.solveTime = time,
                         !.wasSolvedBeforeFreeze = TRUE]
         ELSE [ps EXCEPT !.wrongAttempts = @ + 1]
    ELSE ps

\* submitStatus counting a hidden wrong attempt at once.
submitStatusCountingHidden(ps, fr, problem, status, time) ==
    IF fr /\ ~ps.wasSolvedBeforeFreeze
    THEN IF status = "Accepted"
         THEN [ps EXCEPT !.frozenSubs = Append(@, Submission(problem, status, time))]
         ELSE [ps EXCEPT !.frozenSubs = Append(@, Submission(problem, status, time)),
                         !.wrongAttempts = @ + 1]
    ELSE IF ~ps.solved
    THEN IF status = "Accepted"
         THEN [ps EXCEPT !.solved = TRUE, !.solveTime = time,
                         !.wasSolvedBeforeFreeze = TRUE]
         ELSE [ps EXCEPT !.wrongAttempts = @ + 1]
    ELSE ps

\* submitStatus without line 200: an Accepted submission sets solved only.
submitStatusNotMarkingCounted(ps, fr, problem, status, time) ==
    IF fr /\ ~ps.wasSolvedBeforeFreeze
    THEN [ps EXCEPT !.frozenSubs = Append(@, Submission(problem, status, time))]
    ELSE IF ~ps.solved
    THEN IF status = "Accepted"
         THEN [ps EXCEPT !.solved = TRUE, !.solveTime = time]
         ELSE [ps EXCEPT !.wrongAttempts = @ + 1]
    ELSE ps

\* The state effect of submit on the problem's status (lines 194-204).
submitStatus(ps, fr, problem, status, time) ==
    IF fr /\ ~ps.wasSolvedBeforeFreeze
    THEN [ps EXCEPT !.frozenSubs = Append(@, Submission(problem, status, time))]
    ELSE IF ~ps.solved
    THEN IF status = "Accepted"
         THEN [ps EXCEPT !.solved = TRUE, !.solveTime = time,
                         !.wasSolvedBeforeFreeze = TRUE]
         ELSE [ps EXCEPT !.wrongAttempts = @ + 1]
    ELSE ps

\* teams after submit: teams[teamName] default-constructs a missing team
\* (name ""), the ledger grows, a missing problem entry is created.
submitTeams(tms, fr, problem, teamName, status, time) ==
    LET t0 == TeamAt(tms, teamName)
        t1 == [t0 EXCEPT !.submissions = Append(@, Submission(problem, status, time))]
        ps0 == IF problem \in DOMAIN t1.problems THEN t1.problems[problem]
               ELSE ProblemStatus
        ps1 == submitStatus(ps0, fr, problem, status, time)
    IN Put(tms, teamName, [t1 EXCEPT !.problems = Put(@, problem, ps1)])

submit(problem, teamName, status, time) ==
    /\ pc = "idle"
    /\ teams' = submitTeams(teams, frozen, problem, teamName, status, time)
    /\ out' = Line("")
    /\ UNCHANGED <<teamNames, started, frozen, durationTime, problemCount,
                   problemList, lastRanking, pc, steps>>

\* flush without the ranking.clear() of calculateRanking.
flushWithoutClear ==
    /\ pc = "idle"
    /\ lastRanking' = lastRanking \o calculateRanking(teams, teamNames, problemList)
    /\ out' = Line("[Info]Flush scoreboard.")
    /\ UNCHANGED <<teams, teamNames, started, frozen, durationTime,
                   problemCount, problemList, pc, steps>>

flush ==
    /\ pc = "idle"
    /\ lastRanking' = calculateRanking(teams, teamNames, problemList)
    /\ out' = Line("[Info]Flush scoreboard.")
    /\ UNCHANGED <<teams, teamNames, started, frozen, durationTime,
                   problemCount, problemList, pc, steps>>

\* The loops of freeze over every team and every problem entry.
freezeTeams(tms) ==
    [n \in DOMAIN tms |->
        [tms[n] EXCEPT !.problems =
            [p \in DOMAIN @ |->
                IF @[p].solved THEN [@[p] EXCEPT !.wasSolvedBeforeFreeze = TRUE]
                ELSE @[p]]]]

freeze ==
    /\ pc = "idle"
    /\ IF frozen
       THEN /\ out' = Line("[Error]Freeze failed: scoreboard has been frozen.")
            /\ UNCHANGED engine
       ELSE /\ frozen' = TRUE
            /\ teams' = freezeTeams(teams)
            /\ out' = Line("[Info]Freeze scoreboard.")
            /\ UNCHANGED <<teamNames, started, durationTime, problemCount,
                           problemList, lastRanking>>
    /\ UNCHANGED <<pc, steps>>

(* ------------------------------ scroll --------------------------------- *)

\* "t.problems.count(prob) && !t.problems.at(prob).frozenSubs.empty()"
hasFrozenSubs(t, prob) ==
    prob \in DOMAIN t.problems /\ t.problems[prob].frozenSubs # <<>>

\* The inner loop of lines 250-259 / 266-271: the first problem of the
\* problem list with hidden submissions ("" when there is none).
firstFrozenProb(t, plist) ==
    IF \E i \in 1..Len(plist) : hasFrozenSubs(t, plist[i])
    THEN plist[CHOOSE i \in 1..Len(plist) :
                  /\ hasFrozenSubs(t, plist[i])
                  /\ \A j \in 1..(i - 1) : ~hasFrozenSubs(t, plist[j])]
    ELSE ""

\* selectLoop keeping the first team with hidden submissions it meets: the
\* best-ranked one.
RECURSIVE selectLoopBestRanked(_, _, _, _, _)
selectLoopBestRanked(ranking, tms, plist, i, acc) ==
    IF i > Len(ranking) THEN acc
    ELSE LET p == ranking[i]
             hit == firstFrozenProb(TeamAt(tms, p.first), plist) # ""
         IN selectLoopBestRanked(ranking, tms, plist, i + 1,
                IF hit /\ ~acc.hasFrozen
                THEN [hasFrozen |-> TRUE, lowestTeam |-> p.first,
                      lowestRank |-> p.second]
                ELSE acc)

\* The scan of lines 244-260 over the ranking, from index i on.
RECURSIVE selectLoop(_, _, _, _, _)
selectLoop(ranking, tms, plist, i, acc) ==
    IF i > Len(ranking) THEN acc
    ELSE LET p == ranking[i]
             hit == firstFrozenProb(TeamAt(tms, p.first), plist) # ""
         IN selectLoop(ranking, tms, plist, i + 1,
                IF hit
                THEN IF p.second > acc.lowestRank
                     THEN [hasFrozen |-> TRUE, lowestTeam |-> p.first,
                           lowestRank |-> p.second]
                     ELSE [acc EXCEPT !.hasFrozen = TRUE]
                ELSE acc)

scrollSelect(ranking, tms, plist) ==
    selectLoop(ranking, tms, plist, 1,
               [hasFrozen |-> FALSE, lowestTeam |-> "", lowestRank |-> 0])

\* replayOne without the "!ps.solved" guard of its Accepted branch.
replayOneOverwriting(ps, sub) ==
    IF sub.status = "Accepted"
    THEN [ps EXCEPT !.solved = TRUE, !.solveTime = sub.time,
                    !.wasSolvedBeforeFreeze = TRUE]
    ELSE IF ~ps.solved
    THEN [ps EXCEPT !.wrongAttempts = @ + 1]
    ELSE ps

\* One hidden submission replayed on the status (lines 275-281).
replayOne(ps, sub) ==
    IF sub.status = "Accepted" /\ ~ps.solved
    THEN [ps EXCEPT !.solved = TRUE, !.solveTime = sub.time,
                    !.wasSolvedBeforeFreeze = TRUE]
    ELSE IF sub.status # "Accepted" /\ ~ps.solved
    THEN [ps EXCEPT !.wrongAttempts = @ + 1]
    ELSE ps

RECURSIVE replayLoop(_, _)
replayLoop(ps, subs) ==
    IF subs = <<>> THEN ps
    ELSE replayLoop(replayOne(ps, Head(subs)), Tail(subs))

\* unfreeze without frozenSubs.clear().
unfreezeKeepingQueue(ps) == replayLoop(ps, ps.frozenSubs)

\* Lines 273-283: replay the queue, then clear it.
unfreeze(ps) == [replayLoop(ps, ps.frozenSubs) EXCEPT !.frozenSubs = <<>>]

\* teams after the reveal of problem prob of team name.
revealTeams(tms, name, prob) ==
    LET t == TeamAt(tms, name)
        ps == IF prob \in DOMAIN t.problems THEN t.problems[prob] ELSE ProblemStatus
    IN Put(tms, name, [t EXCEPT !.problems = Put(@, prob, unfreeze(ps))])

\* notification with "newRank <= oldRank" for the test of line 296.
notificationOnNoChange(ranking, tms, plist, lowestTeam, oldRank) ==
    LET newRank == RankIn(ranking, lowestTeam)
        info == getTeamRankInfo(tms, plist, lowestTeam)
        replaced == IF \E i \in 1..Len(ranking) : ranking[i].second = newRank + 1
                    THEN ranking[CHOOSE i \in 1..Len(ranking) :
                            ranking[i].second = newRank + 1].first
                    ELSE ""
    IN IF newRank <= oldRank
       THEN Output("<team> <replaced> <solved> <penalty>", lowestTeam, replaced,
                   "", info.solved, info.penalty)
       ELSE Line("")

\* notification naming the team that now holds the improved team's old rank.
notificationNamingOldRank(ranking, tms, plist, lowestTeam, oldRank) ==
    LET newRank == RankIn(ranking, lowestTeam)
        info == getTeamRankInfo(tms, plist, lowestTeam)
        replaced == IF \E i \in 1..Len(ranking) : ranking[i].second = oldRank
                    THEN ranking[CHOOSE i \in 1..Len(ranking) :
                            ranking[i].second = oldRank].first
                    ELSE ""
    IN IF newRank < oldRank
       THEN Output("<team> <replaced> <solved> <penalty>", lowestTeam, replaced,
                   "", info.solved, info.penalty)
       ELSE Line("")

\* Lines 296-308: the notification of a reveal step, or nothing.
notification(ranking, tms, plist, lowestTeam, oldRank) ==
    LET newRank == RankIn(ranking, lowestTeam)
        info == getTeamRankInfo(tms, plist, lowestTeam)
        replaced == IF \E i \in 1..Len(ranking) : ranking[i].second = newRank + 1
                    THEN ranking[CHOOSE i \in 1..Len(ranking) :
                            /\ ranking[i].second = newRank + 1
                            /\ \A j \in 1..(i - 1) : ranking[j].second # newRank + 1].first
                    ELSE ""
    IN IF newRank < oldRank
       THEN Output("<team> <replaced> <solved> <penalty>", lowestTeam, replaced,
                   "", info.solved, info.penalty)
       ELSE Line("")

\* scroll with flush(true) moved before the check of the frozen flag.
scrollFlushingFirst ==
    /\ pc = "idle"
    /\ lastRanking' = calculateRanking(teams, teamNames, problemList)
    /\ IF ~frozen
       THEN /\ out' = Line("[Error]Scroll failed: scoreboard has not been frozen.")
            /\ UNCHANGED <<pc, steps>>
       ELSE /\ pc' = "scroll"
            /\ steps' = 0
            /\ out' = Line("[Info]Scroll scoreboard.")
    /\ UNCHANGED <<teams, teamNames, started, frozen, durationTime,
                   problemCount, problemList>>

\* Lines 232-241: the precondition, flush(true) and the first scoreboard.
scroll ==
    /\ pc = "idle"
    /\ IF ~frozen
       THEN /\ out' = Line("[Error]Scroll failed: scoreboard has not been frozen.")
            /\ UNCHANGED <<engine, pc, steps>>
       ELSE /\ lastRanking' = calculateRanking(teams, teamNames, problemList)
            /\ pc' = "scroll"
            /\ steps' = 0
            /\ out' = Line("[Info]Scroll scoreboard.")
            /\ UNCHANGED <<teams, teamNames, started, frozen, durationTime,
                           problemCount, problemList>>

\* One iteration of the loop of lines 243-309 that does not break.
scrollReveal ==
    /\ pc = "scroll"
    /\ LET sel == scrollSelect(lastRanking, teams, problemList) IN
       /\ sel.hasFrozen
       /\ LET unfreezeProb == firstFrozenProb(TeamAt(teams, sel.lowestTeam), problemList)
              tms == revealTeams(teams, sel.lowestTeam, unfreezeProb)
              ranking == calculateRanking(tms, teamNames, problemList)
          IN /\ teams' = tms
             /\ lastRanking' = ranking
             /\ out' = notification(ranking, tms, problemList, sel.lowestTeam,
                                    sel.lowestRank)
    /\ steps' = steps + 1
    /\ UNCHANGED <<teamNames, started, frozen, durationTime, problemCount,
                   problemList, pc>>

\* The iteration that breaks (line 262), the final scoreboard, frozen = false.
scrollFinish ==
    /\ pc = "scroll"
    /\ ~scrollSelect(lastRanking, teams, problemList).hasFrozen
    /\ frozen' = FALSE
    /\ pc' = "idle"
    /\ steps' = 0
    /\ out' = Line("<scoreboard>")
    /\ UNCHANGED <<teams, teamNames, started, durationTime, problemCount,
                   problemList, lastRanking>>

(* ------------------------------ queries -------------------------------- *)

\* sort(sortedNames): the names in std::string order.
RECURSIVE InsertName(_, _)
InsertName(x, s) ==
    IF s = <<>> THEN <<x>>
    ELSE IF NameIndex(x) < NameIndex(Head(s)) THEN <<x>> \o s
    ELSE <<Head(s)>> \o InsertName(x, Tail(s))

RECURSIVE SortNames(_)
SortNames(s) == IF s = <<>> THEN <<>> ELSE InsertName(Head(s), SortNames(Tail(s)))

\* queryRank recomputing the ranking instead of reading the cached one.
queryRankRecomputing(ranking, names, name) ==
    RankIn(calculateRanking(teams, names, problemList), name)

\* Lines 327-344: the rank queryRanking prints.
queryRank(ranking, names, name) ==
    IF ranking # <<>> THEN RankIn(ranking, name)
    ELSE LET sortedNames == SortNames(names) IN
         IF \E i \in 1..Len(sortedNames) : sortedNames[i] = name
         THEN CHOOSE i \in 1..Len(sortedNames) :
                 /\ sortedNames[i] = name
                 /\ \A j \in 1..(i - 1) : sortedNames[j] # name
         ELSE 0

queryRanking(name) ==
    /\ pc = "idle"
    /\ IF name \notin DOMAIN teams
       THEN out' = Line("[Error]Query ranking failed: cannot find the team.")
       ELSE out' = Output("[Info]Complete query ranking.", name,
                          IF frozen THEN "[Warning]Scoreboard is frozen." ELSE "",
                          "", queryRank(lastRanking, teamNames, name), 0)
    /\ UNCHANGED <<engine, pc, steps>>

subMatches(sub, problem, status) ==
    /\ (problem = "ALL" \/ sub.problem = problem)
    /\ (status = "ALL" \/ sub.status = status)

\* findLast scanning the ledger from its front: the oldest match.
findFirstMatch(subs, i, problem, status) ==
    IF \E j \in 1..i : subMatches(subs[j], problem, status)
    THEN CHOOSE j \in 1..i :
            /\ subMatches(subs[j], problem, status)
            /\ \A k \in 1..(j - 1) : ~subMatches(subs[k], problem, status)
    ELSE 0

\* Lines 361-368: the scan of the ledger from its end; 0 when nothing matches.
RECURSIVE findLast(_, _, _, _)
findLast(subs, i, problem, status) ==
    IF i < 1 THEN 0
    ELSE IF subMatches(subs[i], problem, status) THEN i
    ELSE findLast(subs, i - 1, problem, status)

querySubmission(teamName, problem, status) ==
    /\ pc = "idle"
    /\ IF teamName \notin DOMAIN teams
       THEN out' = Line("[Error]Query submission failed: cannot find the team.")
       ELSE LET subs == teams[teamName].submissions
                i == findLast(subs, Len(subs), problem, status)
            IN IF i # 0
               THEN out' = Output("[Info]Complete query submission.", teamName,
                                  subs[i].problem, subs[i].status, subs[i].time, 0)
               ELSE out' = Output("Cannot find any submission.", teamName, "", "", 0, 0)
    /\ UNCHANGED <<engine, pc, steps>>

\* END: the message, then the command loop breaks.
end ==
    /\ pc = "idle"
    /\ pc' = "ended"
    /\ out' = Line("[Info]Competition ends.")
    /\ UNCHANGED <<engine, steps>>

(* --------------------------- specification ----------------------------- *)

\* Number of SUBMIT commands so far: the total length of the ledgers.
RECURSIVE SumLedgers(_, _)
SumLedgers(tms, S) ==
    IF S = {} THEN 0
    ELSE LET n == CHOOSE x \in S : TRUE
         IN Len(tms[n].submissions) + SumLedgers(tms, S \ {n})

TotalSubs == SumLedgers(teams, DOMAIN teams)

AddTeam == \E name \in Names : addTeam(name)

Start == \E duration \in Durations, problems \in ProblemCounts :
            start(duration, problems)

Submit ==
    /\ TotalSubs < MaxSubs
    /\ \E problem \in SubmitProblems, teamName \in Names, c \in SubmitCases :
            submit(problem, teamName, c[1], c[2])

Flush == flush

Freeze == freeze

Scroll == scroll

ScrollReveal == scrollReveal

ScrollFinish == scrollFinish

QueryRanking == \E name \in Names : queryRanking(name)

QuerySubmission ==
    \E teamName \in Names, problem \in SubmitProblems \cup {"ALL"},
       status \in Statuses \cup {"ALL"} :
        querySubmission(teamName, problem, status)

\* QUERY_SUBMISSION for a team that is not in the teams map.
QuerySubmissionUnknown ==
    \E teamName \in Names \ DOMAIN teams, problem \in SubmitProblems \cup {"ALL"},
       status \in Statuses \cup {"ALL"} :
        querySubmission(teamName, problem, status)

End == end

\* Every command of the command loop.
Next ==
    \/ AddTeam
    \/ Start
    \/ Submit
    \/ Flush
    \/ Freeze
    \/ Scroll
    \/ ScrollReveal
    \/ ScrollFinish
    \/ QueryRanking
    \/ QuerySubmission
    \/ End

Spec == Init /\ [][Next]_vars

\* The commands without the lookups of QUERY_SUBMISSION for a known team,
\* which read the ledger and write nothing but their own output.
NextCore ==
    \/ AddTeam
    \/ Start
    \/ Submit
    \/ Flush
    \/ Freeze
    \/ Scroll
    \/ ScrollReveal
    \/ ScrollFinish
    \/ QueryRanking
    \/ QuerySubmissionUnknown
    \/ End

SpecCore == Init /\ [][NextCore]_vars

\* The command streams of a well-formed contest: SUBMIT, FLUSH, FREEZE and
\* SCROLL come after START and a SUBMIT names a problem of the problem list.
\* The team a SUBMIT names is still any name.
ContestSubmit ==
    /\ started
    /\ TotalSubs < MaxSubs
    /\ \E problem \in SubmitProblems \cap RangeOf(problemList),
          teamName \in Names, c \in SubmitCases :
            submit(problem, teamName, c[1], c[2])

ContestFlush == started /\ flush

ContestFreeze == started /\ freeze

ContestScroll == started /\ scroll

NextContest ==
    \/ AddTeam
    \/ Start
    \/ ContestSubmit
    \/ ContestFlush
    \/ ContestFreeze
    \/ ContestScroll
    \/ ScrollReveal
    \/ ScrollFinish
    \/ QueryRanking
    \/ QuerySubmissionUnknown
    \/ End

SpecContest == Init /\ [][NextContest]_vars

\* The state after "ADDTEAM a" and "START DURATION 300 PROBLEM 2".
InitLedger ==
    /\ teams = Put(<<>>, "a", Team("a"))
    /\ teamNames = <<"a">>
    /\ started = TRUE
    /\ frozen = FALSE
    /\ durationTime \in Durations
    /\ problemCount = 2
    /\ problemList = <<Letters[1], Letters[2]>>
    /\ lastRanking = <<>>
    /\ pc = "idle"
    /\ steps = 0
    /\ out = Line("")

\* The commands of a started contest that write or read the ledgers: every
\* one but FLUSH, QUERY_RANKING and END, which leave the teams map alone.
NextLedger ==
    \/ Submit
    \/ Freeze
    \/ Scroll
    \/ ScrollReveal
    \/ ScrollFinish
    \/ QuerySubmission

SpecLedger == InitLedger /\ [][NextLedger]_vars

\* The names of the three teams of the scroll boards.
BoardNames == {"a", "b", "c"}

\* Bound on the number of SUBMIT commands of a run on a scroll board.
MaxBoardSubs == 3

\* The state after ADDTEAM of c, a and b and "START DURATION 300 PROBLEM 2".
InitBoard ==
    /\ teams = Put(Put(Put(<<>>, "c", Team("c")), "a", Team("a")), "b", Team("b"))
    /\ teamNames = <<"c", "a", "b">>
    /\ started = TRUE
    /\ frozen = FALSE
    /\ durationTime \in Durations
    /\ problemCount = 2
    /\ problemList = <<Letters[1], Letters[2]>>
    /\ lastRanking = <<>>
    /\ pc = "idle"
    /\ steps = 0
    /\ out = Line("")

BoardSubmit ==
    /\ TotalSubs < MaxBoardSubs
    /\ \E problem \in SubmitProblems, teamName \in BoardNames, c \in SubmitCases :
            submit(problem, teamName, c[1], c[2])

\* SUBMIT, FREEZE and SCROLL on a board of three registered teams.
NextBoard ==
    \/ BoardSubmit
    \/ Freeze
    \/ Scroll
    \/ ScrollReveal
    \/ ScrollFinish

SpecBoard == InitBoard /\ [][NextBoard]_vars

(* ------------------ the ranking as a function of the board ------------- *)

\* Solve times of the boards the ranking is computed on: 1, 1 + 20, 1 + 40.
RankTimes == {1, 21, 41}

\* Bound on the wrong attempts before the last submission of a problem.
MaxWrong == 1

\* What a team submits to one problem: up to MaxWrong wrong attempts, then
\* an Accepted submission at a time of RankTimes or nothing.
Scripts ==
    {[i \in 1..w |-> <<"Wrong_Answer", 1>>] \o tl :
        w \in 0..MaxWrong,
        tl \in {<<>>} \cup {<< <<"Accepted", t>> >> : t \in RankTimes}}

\* teams after the SUBMIT commands of script for problem by teamName.
RECURSIVE submitAll(_, _, _, _)
submitAll(tms, teamName, problem, script) ==
    IF script = <<>> THEN tms
    ELSE submitAll(submitTeams(tms, FALSE, problem, teamName,
                               Head(script)[1], Head(script)[2]),
                   teamName, problem, Tail(script))

\* The state after ADDTEAM of two teams, START with two problems and the
\* SUBMIT commands of one script per team and problem.
InitRank ==
    /\ teamNames \in {<<"a", "b">>, <<"b", "a">>}
    /\ \E aA \in Scripts, aB \in Scripts, bA \in Scripts, bB \in Scripts :
         teams = submitAll(submitAll(submitAll(submitAll(
                     Put(Put(<<>>, "a", Team("a")), "b", Team("b")),
                     "a", "A", aA), "a", "B", aB), "b", "A", bA), "b", "B", bB)
    /\ started = TRUE
    /\ frozen = FALSE
    /\ durationTime \in Durations
    /\ problemCount = 2
    /\ problemList = <<Letters[1], Letters[2]>>
    /\ lastRanking = <<>>
    /\ pc = "idle"
    /\ steps = 0
    /\ out = Line("")

NextRank ==
    \/ Flush
    \/ QueryRanking

SpecRank == InitRank /\ [][NextRank]_vars

(* ------------------------------ claims --------------------------------- *)

\* The ranking a flush or a scroll step computes in the current state.
CurrentRanking == calculateRanking(teams, teamNames, problemList)

\* C1: every ranking computed by flush or a scroll step gives the N
\* registered teams pairwise distinct ranks that are exactly 1..N, each
\* registered team appearing exactly once.
C1_RankTotality ==
    LET r == CurrentRanking
        N == Len(teamNames)
    IN /\ Len(r) = N
       /\ {r[i].second : i \in 1..Len(r)} = 1..N
       /\ \A i, j \in 1..Len(r) : i # j => r[i].second # r[j].second
       /\ \A k \in 1..N :
            Cardinality({i \in 1..Len(r) : r[i].first = teamNames[k]}) = 1
       /\ \A k, m \in 1..N : k # m => teamNames[k] # teamNames[m]

\* Two teams are registered and the ranking is not the registration order.
C1_Witness ==
    /\ teamNames = <<"a", "b">>
    /\ CurrentRanking[1].first = "b"
    /\ CurrentRanking[2].first = "a"

\* Rank, solved count and penalty of every registered team under tms.
RankView(tms) ==
    [ranking |-> calculateRanking(tms, teamNames, problemList),
     counts |-> [i \in 1..Len(teamNames) |->
                    LET info == getTeamRankInfo(tms, problemList, teamNames[i])
                    IN <<info.solved, info.penalty>>]]

\* C2: while the board is frozen, no submit changes the computed ranking:
\* every team's rank, solved count and penalty stay what they were.
C2_FrozenRankingStable ==
    [][(frozen /\ Submit) => RankView(teams') = RankView(teams)]_vars

\* The board is frozen and a registered team has a hidden Accepted
\* submission on a problem of the problem list.
C2_Witness ==
    /\ frozen
    /\ pc = "idle"
    /\ \E i \in 1..Len(teamNames), k \in 1..Len(problemList) :
         LET t == teams[teamNames[i]] IN
         /\ problemList[k] \in DOMAIN t.problems
         /\ \E q \in 1..Len(t.problems[problemList[k]].frozenSubs) :
              t.problems[problemList[k]].frozenSubs[q].status = "Accepted"

\* The status a problem would have had the board never been frozen: the
\* submissions of the ledger for that problem, applied in order.
RECURSIVE NeverFrozen(_, _, _)
NeverFrozen(ps, subs, problem) ==
    IF subs = <<>> THEN ps
    ELSE NeverFrozen(IF Head(subs).problem = problem
                     THEN submitStatus(ps, FALSE, problem, Head(subs).status,
                                       Head(subs).time)
                     ELSE ps,
                     Tail(subs), problem)

\* C3: once a scroll has completed (the board is not frozen), every
\* team-problem's solved flag, solveTime and wrongAttempts are what the same
\* submits would have produced had the board never been frozen.
C3_ScrollReplaysAsUnfrozen ==
    (pc # "scroll" /\ ~frozen) =>
        \A n \in DOMAIN teams : \A p \in DOMAIN teams[n].problems :
            LET ps == teams[n].problems[p]
                ref == NeverFrozen(ProblemStatus, teams[n].submissions, p)
            IN /\ ps.solved = ref.solved
               /\ ps.solveTime = ref.solveTime
               /\ ps.wrongAttempts = ref.wrongAttempts

\* A step is a reveal step of scroll.
IsRevealStep == pc = "scroll" /\ steps' = steps + 1

\* The team the reveal step enabled in this state reveals.
RevealedTeam == scrollSelect(lastRanking, teams, problemList).lowestTeam

\* C4: in every reveal step the revealed team's rank in the ranking
\* recomputed after the step is at most its rank before the step.
C4_RevealNeverWorsens ==
    [][IsRevealStep =>
        RankIn(calculateRanking(teams', teamNames', problemList'), RevealedTeam)
            <= RankIn(calculateRanking(teams, teamNames, problemList), RevealedTeam)]_vars

\* A reveal step has just improved the revealed team's rank.
C4_Witness ==
    /\ pc = "scroll"
    /\ steps >= 1
    /\ out.msg = "<team> <replaced> <solved> <penalty>"

\* The hidden queues of every team-problem.
Queues(tms) ==
    [n \in DOMAIN tms |->
        [p \in DOMAIN tms[n].problems |-> tms[n].problems[p].frozenSubs]]

\* C5: a scroll makes at most (teams x problems) reveal steps; each reveal
\* step empties exactly one non-empty hidden queue and changes no other.
C5_ScrollTerminates ==
    [][IsRevealStep =>
        /\ steps' <= Len(teamNames) * Len(problemList)
        /\ DOMAIN teams' = DOMAIN teams
        /\ \A n \in DOMAIN teams :
                DOMAIN teams'[n].problems = DOMAIN teams[n].problems
        /\ \E n \in DOMAIN teams : \E p \in DOMAIN teams[n].problems :
             /\ Queues(teams)[n][p] # <<>>
             /\ Queues(teams')[n][p] = <<>>
             /\ \A m \in DOMAIN teams : \A q \in DOMAIN teams[m].problems :
                    (m # n \/ q # p) => Queues(teams')[m][q] = Queues(teams)[m][q]]_vars

\* Two reveal steps of one scroll have run.
C5_Witness == pc = "scroll" /\ steps = 2

\* C6: whenever the frozen flag is false, every team-problem's hidden
\* queue is empty.
C6_NoHiddenWhenUnfrozen ==
    ~frozen =>
        \A n \in DOMAIN teams : \A p \in DOMAIN teams[n].problems :
            teams[n].problems[p].frozenSubs = <<>>

\* The messages of the failing calls.
Failures ==
    {"[Error]Add failed: competition has started.",
     "[Error]Add failed: duplicated team name.",
     "[Error]Start failed: competition has started.",
     "[Error]Freeze failed: scoreboard has been frozen.",
     "[Error]Scroll failed: scoreboard has not been frozen.",
     "[Error]Query ranking failed: cannot find the team.",
     "[Error]Query submission failed: cannot find the team."}

\* C7: a failing call leaves the whole engine state as it was.
C7_FailureChangesNothing ==
    [][out'.msg \in Failures =>
        /\ UNCHANGED <<teams, teamNames, started, frozen, durationTime,
                       problemCount, problemList, lastRanking>>
        /\ UNCHANGED <<pc, steps>>]_vars

\* A scroll has just failed on a board whose cached ranking is out of date.
C7_Witness ==
    /\ out.msg = "[Error]Scroll failed: scoreboard has not been frozen."
    /\ teamNames # <<>>
    /\ lastRanking # CurrentRanking

\* C8: the set of teams that have a ledger equals the set of ranked teams.
C8_LedgerTeamsAreRanked ==
    DOMAIN teams = {CurrentRanking[i].first : i \in 1..Len(CurrentRanking)}

\* The rank a queryRanking call for team n answers in the current state.
Answer(n) == queryRank(lastRanking, teamNames, n)

\* The 1-based position of n in the alphabetical order of the registered names.
AlphabeticalPositionIn(names, n) ==
    1 + Cardinality({m \in RangeOf(names) : NameIndex(m) < NameIndex(n)})

AlphabeticalPosition(n) == AlphabeticalPositionIn(teamNames, n)

\* C9 as stated: the answer of queryRanking for a known team is the rank of
\* the snapshot of the most recent explicit flush, and the alphabetical
\* position when the contest has started without a flush since.  So an
\* explicit flush sets it to the fresh rank, START sets it to the
\* alphabetical position, and no other command of a started contest changes it.
C9_AnswersFromLastExplicitFlush ==
    [][\A n \in DOMAIN teams :
        IF out'.msg = "[Info]Flush scoreboard."
        THEN Answer(n)' = RankIn(CurrentRanking', n)
        ELSE IF ~started /\ started'
        THEN n \in RangeOf(teamNames) => Answer(n)' = AlphabeticalPosition(n)
        ELSE started => Answer(n)' = Answer(n)]_vars

\* The rank recorded for n in the cached snapshot, the alphabetical position
\* of n while the snapshot is empty, 0 when n is in neither.
SnapshotRankIn(snapshot, names, n) ==
    IF snapshot # <<>>
    THEN IF \E i \in 1..Len(snapshot) : snapshot[i].first = n
         THEN CHOOSE r \in {snapshot[i].second : i \in 1..Len(snapshot)} :
                \E i \in 1..Len(snapshot) :
                    snapshot[i].first = n /\ snapshot[i].second = r
         ELSE 0
    ELSE IF n \in RangeOf(names) THEN AlphabeticalPositionIn(names, n) ELSE 0

SnapshotRank(n) == SnapshotRankIn(lastRanking, teamNames, n)

\* C9 as amended: queryRanking answers from the cached snapshot, which only
\* a flush, the entry of scroll and a reveal step of scroll rewrite (each
\* with the ranking fresh at that moment) and which no submit changes; while
\* the snapshot is empty the answer is the alphabetical position.
C9_AnswersFromCachedSnapshot ==
    [][/\ out'.msg = "[Info]Complete query ranking."
            => out'.x = SnapshotRankIn(lastRanking', teamNames', out'.team)
       /\ lastRanking' # lastRanking
            => /\ \/ out'.msg = "[Info]Flush scoreboard."
                  \/ out'.msg = "[Info]Scroll scoreboard."
                  \/ IsRevealStep
               /\ lastRanking' = CurrentRanking'
       /\ Submit => \A n \in DOMAIN teams : SnapshotRank(n)' = SnapshotRank(n)]_vars

\* A query has just answered a rank of the cached snapshot that a fresh
\* recompute would not give.
C9_Witness ==
    /\ out.msg = "[Info]Complete query ranking."
    /\ lastRanking # <<>>
    /\ out.x >= 1
    /\ out.x # RankIn(CurrentRanking, out.team)

\* The problems of the problem list that count as solved for team n.
Counted(n) ==
    {p \in RangeOf(problemList) :
        /\ p \in DOMAIN teams[n].problems
        /\ teams[n].problems[p].solved
        /\ teams[n].problems[p].wasSolvedBeforeFreeze}

RECURSIVE PenaltyOver(_, _)
PenaltyOver(n, S) ==
    IF S = {} THEN 0
    ELSE LET p == CHOOSE q \in S : TRUE
         IN teams[n].problems[p].solveTime + 20 * teams[n].problems[p].wrongAttempts
            + PenaltyOver(n, S \ {p})

\* The solve times of the problems S of team n, largest first.
RECURSIVE TimesDescending(_, _)
TimesDescending(n, S) ==
    IF S = {} THEN <<>>
    ELSE LET p == CHOOSE q \in S : \A r \in S :
                    teams[n].problems[q].solveTime >= teams[n].problems[r].solveTime
         IN <<teams[n].problems[p].solveTime>> \o TimesDescending(n, S \ {p})

LexSmaller(s, t) ==
    \/ \E k \in 1..Len(s) :
         /\ k <= Len(t)
         /\ s[k] < t[k]
         /\ \A j \in 1..(k - 1) : s[j] = t[j]
    \/ /\ Len(s) < Len(t)
       /\ \A j \in 1..Len(s) : s[j] = t[j]

\* Team x is ranked before team y by the order of the claim.
RankedBefore(x, y) ==
    LET sx == Cardinality(Counted(x))
        sy == Cardinality(Counted(y))
        px == PenaltyOver(x, Counted(x))
        py == PenaltyOver(y, Counted(y))
        tx == TimesDescending(x, Counted(x))
        ty == TimesDescending(y, Counted(y))
    IN \/ sx > sy
       \/ sx = sy /\ px < py
       \/ sx = sy /\ px = py /\ LexSmaller(tx, ty)
       \/ sx = sy /\ px = py /\ tx = ty /\ NameIndex(x) < NameIndex(y)

\* C10: the ranking orders the teams by more counted-solved problems, then
\* smaller penalty (sum of solveTime + 20 x wrongAttempts over the counted
\* problems), then the lexicographically smaller descending solve-time
\* sequence, then the smaller name.
C10_RankingOrder ==
    \A i, j \in 1..Len(CurrentRanking) :
        i < j => RankedBefore(CurrentRanking[i].first, CurrentRanking[j].first)

\* A flushed ranking puts b before a although both have the same solved
\* count and penalty, one of them with a wrong attempt counted.
C10_Witness ==
    /\ lastRanking = CurrentRanking
    /\ Len(lastRanking) = 2
    /\ lastRanking[1].first = "b"
    /\ Cardinality(Counted("a")) = Cardinality(Counted("b"))
    /\ PenaltyOver("a", Counted("a")) = PenaltyOver("b", Counted("b"))
    /\ \E p \in Counted("a") \cup Counted("b"), n \in {"a", "b"} :
         p \in Counted(n) /\ teams[n].problems[p].wrongAttempts > 0

\* The status of problem p of team n under tms; the default-constructed
\* status when the team or the problem entry does not exist.
StatusIn(tms, n, p) ==
    IF n \in DOMAIN tms /\ p \in DOMAIN tms[n].problems
    THEN tms[n].problems[p]
    ELSE ProblemStatus

\* Index of the first Accepted submission of subs, 0 when there is none.
FirstAccepted(subs) ==
    IF \E i \in 1..Len(subs) : subs[i].status = "Accepted"
    THEN CHOOSE i \in 1..Len(subs) :
            /\ subs[i].status = "Accepted"
            /\ \A j \in 1..(i - 1) : subs[j].status # "Accepted"
    ELSE 0

\* Number of submissions of subs before index k that are not Accepted.
WrongBefore(subs, k) ==
    Cardinality({i \in 1..(k - 1) : subs[i].status # "Accepted"})

\* The step appends one submission to the ledger of team n.
LedgerGrows(n) ==
    /\ n \in DOMAIN teams'
    /\ Len(teams'[n].submissions) = Len(TeamAt(teams, n).submissions) + 1
    /\ SubSeq(teams'[n].submissions, 1, Len(TeamAt(teams, n).submissions))
            = TeamAt(teams, n).submissions

\* The submission a step with LedgerGrows(n) has recorded.
Recorded(n) == teams'[n].submissions[Len(teams'[n].submissions)]

\* C11: once a team-problem is solved, no step (no later submit, frozen or
\* not, and no scroll replay) alters its solved flag, solveTime or
\* wrongAttempts; and the step that solves it sets solveTime to the time of
\* the first Accepted submission applied to it: the Accepted submission of a
\* submit step, or the first Accepted submission of the replayed queue, the
\* wrong attempts before it in the queue being counted and none after it.
C11_SolvedIsFinal ==
    [][/\ \A n \in DOMAIN teams : \A p \in DOMAIN teams[n].problems :
            teams[n].problems[p].solved =>
                /\ StatusIn(teams', n, p).solved
                /\ StatusIn(teams', n, p).solveTime = teams[n].problems[p].solveTime
                /\ StatusIn(teams', n, p).wrongAttempts
                        = teams[n].problems[p].wrongAttempts
       /\ \A n \in DOMAIN teams' : \A p \in DOMAIN teams'[n].problems :
            LET ps == StatusIn(teams, n, p)
                qs == teams'[n].problems[p]
                k == FirstAccepted(ps.frozenSubs)
            IN (qs.solved /\ ~ps.solved) =>
                \/ /\ LedgerGrows(n)
                   /\ Recorded(n) = Submission(p, "Accepted", qs.solveTime)
                   /\ qs.wrongAttempts = ps.wrongAttempts
                \/ /\ IsRevealStep
                   /\ k # 0
                   /\ qs.solveTime = ps.frozenSubs[k].time
                   /\ qs.wrongAttempts
                        = ps.wrongAttempts + WrongBefore(ps.frozenSubs, k)]_vars

\* A scroll has replayed a queue of two Accepted submissions with different
\* times on one problem of a registered team: the solve time is the first's.
C11_Witness ==
    /\ pc = "scroll"
    /\ steps >= 1
    /\ \E i \in 1..Len(teamNames), p \in RangeOf(problemList) :
         LET t == teams[teamNames[i]] IN
         /\ t.submissions = <<Submission(p, "Accepted", 21),
                              Submission(p, "Accepted", 1)>>
         /\ StatusIn(teams, teamNames[i], p).solved
         /\ StatusIn(teams, teamNames[i], p).solveTime = 21
         /\ StatusIn(teams, teamNames[i], p).frozenSubs = <<>>

\* C12: a flush that directly follows a flush leaves the cached ranking
\* snapshot as the first flush wrote it.
C12_FlushIdempotent ==
    [][(out.msg = "[Info]Flush scoreboard." /\ out'.msg = "[Info]Flush scoreboard.")
            => lastRanking' = lastRanking]_vars

\* The state a flush leaves, and a second flush leaves again: two registered
\* teams whose cached ranking is not the registration order.
C12_Witness ==
    /\ out.msg = "[Info]Flush scoreboard."
    /\ teamNames = <<"a", "b">>
    /\ lastRanking = <<[first |-> "b", second |-> 1], [first |-> "a", second |-> 2]>>

\* C13: while the board is frozen, a submit to a team-problem whose
\* wasSolvedBeforeFreeze flag is already true is applied at once, as on an
\* unfrozen board: nothing is appended to that problem's hidden queue.
C13_CountedProblemNeverQueues ==
    [][\A n \in DOMAIN teams' :
        (frozen /\ LedgerGrows(n)) =>
            LET s == Recorded(n)
                ps == StatusIn(teams, n, s.problem)
            IN ps.wasSolvedBeforeFreeze =>
                /\ StatusIn(teams', n, s.problem).frozenSubs = ps.frozenSubs
                /\ StatusIn(teams', n, s.problem)
                        = submitStatus(ps, FALSE, s.problem, s.status, s.time)]_vars

\* The last command was a submit on the frozen board, to a problem that was
\* solved before the freeze: both submissions of the run went to it.
C13_Witness ==
    /\ frozen
    /\ pc = "idle"
    /\ out.msg = ""
    /\ \E n \in DOMAIN teams, p \in SubmitProblems :
         /\ Len(teams[n].submissions) = 2
         /\ \A i \in 1..2 : teams[n].submissions[i].problem = p
         /\ StatusIn(teams, n, p).solved
         /\ StatusIn(teams, n, p).wasSolvedBeforeFreeze
         /\ StatusIn(teams, n, p).frozenSubs = <<>>

\* The indices of the ledger subs whose submission passes both filters.
Matching(subs, problemFilter, verdictFilter) ==
    {i \in 1..Len(subs) :
        /\ problemFilter \in {"ALL", subs[i].problem}
        /\ verdictFilter \in {"ALL", subs[i].status}}

\* The greatest element of a non-empty set of indices.
Latest(S) == CHOOSE i \in S : \A j \in S : j <= i

\* C14: every submit appends its submission to the team's ledger, whatever
\* the freeze state and the solve state, and no step removes or rewrites a
\* ledger entry; querySubmission for a known team answers the most recently
\* submitted ledger entry that passes both filters ("ALL" passing anything)
\* and answers "none found" exactly when no entry passes.
C14_LastMatchingSubmission ==
    [][/\ \A n \in DOMAIN teams :
            /\ n \in DOMAIN teams'
            /\ \/ teams'[n].submissions = teams[n].submissions
               \/ LedgerGrows(n)
       /\ (teams' # teams /\ pc = "idle" /\ frozen' = frozen) =>
            \A problem \in SubmitProblems, teamName \in Names, c \in SubmitCases :
                submit(problem, teamName, c[1], c[2]) =>
                    /\ LedgerGrows(teamName)
                    /\ Recorded(teamName) = Submission(problem, c[1], c[2])
       /\ out'.msg \in {"[Info]Complete query submission.",
                        "Cannot find any submission."} =>
            \A teamName \in DOMAIN teams,
               problemFilter \in SubmitProblems \cup {"ALL"},
               verdictFilter \in Statuses \cup {"ALL"} :
                querySubmission(teamName, problemFilter, verdictFilter) =>
                    LET subs == teams[teamName].submissions
                        M == Matching(subs, problemFilter, verdictFilter)
                    IN IF M = {}
                       THEN out'.msg = "Cannot find any submission."
                       ELSE /\ out'.msg = "[Info]Complete query submission."
                            /\ out'.team = teamName
                            /\ out'.other = subs[Latest(M)].problem
                            /\ out'.status = subs[Latest(M)].status
                            /\ out'.x = subs[Latest(M)].time]_vars

\* A query has answered the second of two Accepted submissions to one
\* problem, made on the frozen board after the first had solved the problem.
C14_Witness ==
    /\ out.msg = "[Info]Complete query submission."
    /\ frozen
    /\ out.x = 1
    /\ teams[out.team].submissions = <<Submission(out.other, "Accepted", 21),
                                        Submission(out.other, "Accepted", 1)>>
    /\ StatusIn(teams, out.team, out.other).solveTime = 21

\* Position of problem identifier p in the order 'A' < 'B' < ...
LetterIndex(p) == CHOOSE i \in 1..Len(Letters) : Letters[i] = p

\* The teams that have a problem with a non-empty hidden queue.
WithHidden(tms) ==
    {n \in DOMAIN tms :
        \E p \in DOMAIN tms[n].problems : tms[n].problems[p].frozenSubs # <<>>}

\* C15: each reveal step of scroll empties a queue of the team that has the
\* numerically largest rank, in the ranking current at the step, among all
\* teams with a non-empty hidden queue; within that team it is the queue of
\* the lowest problem identifier that has a non-empty queue.
C15_RevealsWorstRankedFirst ==
    [][IsRevealStep =>
        /\ lastRanking = CurrentRanking
        /\ \E n \in WithHidden(teams) : \E p \in DOMAIN teams[n].problems :
             /\ teams[n].problems[p].frozenSubs # <<>>
             /\ StatusIn(teams', n, p).frozenSubs = <<>>
             /\ \A m \in WithHidden(teams) :
                    RankIn(CurrentRanking, m) <= RankIn(CurrentRanking, n)
             /\ \A q \in DOMAIN teams[n].problems :
                    teams[n].problems[q].frozenSubs # <<>>
                        => LetterIndex(p) <= LetterIndex(q)]_vars

\* A reveal step has moved a team with hidden submissions on two problems
\* off the last rank; its second problem is still hidden and a team ranked
\* below it now has a hidden queue too.
C15_Witness ==
    /\ pc = "scroll"
    /\ steps = 1
    /\ out.msg = "<team> <replaced> <solved> <penalty>"
    /\ StatusIn(teams, out.team, "B").frozenSubs # <<>>
    /\ \E m \in WithHidden(teams) :
            RankIn(lastRanking, m) > RankIn(lastRanking, out.team)

\* The team whose hidden queue the step empties.
RevealedBy(tms, tmsAfter) ==
    CHOOSE n \in DOMAIN tms : \E p \in DOMAIN tms[n].problems :
        /\ tms[n].problems[p].frozenSubs # <<>>
        /\ StatusIn(tmsAfter, n, p).frozenSubs = <<>>

\* The problems of plist that count as solved for team n under tms.
CountedIn(tms, plist, n) ==
    {p \in RangeOf(plist) :
        StatusIn(tms, n, p).solved /\ StatusIn(tms, n, p).wasSolvedBeforeFreeze}

\* Sum of solveTime + 20 x wrongAttempts over the problems S of team n.
RECURSIVE PenaltyIn(_, _, _)
PenaltyIn(tms, n, S) ==
    IF S = {} THEN 0
    ELSE LET p == CHOOSE q \in S : TRUE
         IN StatusIn(tms, n, p).solveTime + 20 * StatusIn(tms, n, p).wrongAttempts
            + PenaltyIn(tms, n, S \ {p})

\* The team that holds rank k in ranking, "" when no team does.
OccupantOf(ranking, k) ==
    IF \E i \in 1..Len(ranking) : ranking[i].second = k
    THEN ranking[CHOOSE i \in 1..Len(ranking) : ranking[i].second = k].first
    ELSE ""

\* C16: a reveal step prints one rank-change notification when the revealed
\* team's rank in the recomputed ranking is strictly smaller than its rank
\* before the step, and prints nothing when the rank is unchanged; the
\* notification carries the team, the team at position newRank + 1 of the
\* recomputed ranking, and the team's new solved count and new penalty.
C16_NotificationOnImprovement ==
    [][IsRevealStep =>
        LET team == RevealedBy(teams, teams')
            oldRank == RankIn(lastRanking, team)
            newRank == RankIn(lastRanking', team)
        IN /\ lastRanking' = calculateRanking(teams', teamNames', problemList')
           /\ IF newRank < oldRank
              THEN /\ out'.msg = "<team> <replaced> <solved> <penalty>"
                   /\ out'.team = team
                   /\ out'.other = OccupantOf(lastRanking', newRank + 1)
                   /\ out'.other # ""
                   /\ out'.x = Cardinality(CountedIn(teams', problemList', team))
                   /\ out'.y = PenaltyIn(teams', team,
                                         CountedIn(teams', problemList', team))
              ELSE /\ newRank = oldRank
                   /\ out' = Line("")]_vars

\* The second reveal step of a scroll has printed a notification that
\* carries two solved problems and a penalty with a counted wrong attempt.
C16_Witness ==
    /\ pc = "scroll"
    /\ steps = 2
    /\ out.msg = "<team> <replaced> <solved> <penalty>"
    /\ out.x = 2
    /\ out.y > 40

\* C17 as stated: the second team of a notification is the team that held
\* rank newRank + 1 in the ranking captured before the reveal step.
C17_NamesOldOccupantBelow ==
    [][(IsRevealStep /\ out'.msg = "<team> <replaced> <solved> <penalty>") =>
        out'.other = OccupantOf(lastRanking, RankIn(lastRanking', out'.team) + 1)]_vars

\* C17 as amended: the second team of a notification, the team now
\* immediately below the improved team's new rank, is the team that held the
\* rank newRank itself in the ranking captured before the reveal step.
C17_NamesDisplacedTeam ==
    [][(IsRevealStep /\ out'.msg = "<team> <replaced> <solved> <penalty>") =>
        /\ out'.other = OccupantOf(lastRanking', RankIn(lastRanking', out'.team) + 1)
        /\ out'.other = OccupantOf(lastRanking, RankIn(lastRanking', out'.team))]_vars

\* Team c has moved from rank 3 to rank 1 over a and b, which have nothing
\* solved: the notification names a, which held rank 1, not b, which held 2.
C17_Witness ==
    /\ pc = "scroll"
    /\ out.msg = "<team> <replaced> <solved> <penalty>"
    /\ out.team = "c"
    /\ out.other = "a"
    /\ lastRanking = <<[first |-> "c", second |-> 1], [first |-> "a", second |-> 2],
                       [first |-> "b", second |-> 3]>>
    /\ CountedIn(teams, problemList, "a") = {}
    /\ CountedIn(teams, problemList, "b") = {}

\* C18: a submit made on the frozen board to a team-problem that is not
\* counted as solved before the freeze appends the submission to the end of
\* that problem's hidden queue and changes nothing else of the problem
\* (solved, solveTime and wrongAttempts stay, whatever the verdict) and
\* nothing of any other team-problem.
C18_HiddenSubmitOnlyQueues ==
    [][\A n \in DOMAIN teams' :
        (frozen /\ LedgerGrows(n)) =>
            LET s == Recorded(n)
                ps == StatusIn(teams, n, s.problem)
            IN ~ps.wasSolvedBeforeFreeze =>
                /\ teams'[n].problems[s.problem]
                        = [ps EXCEPT !.frozenSubs = Append(@, s)]
                /\ \A m \in DOMAIN teams' : \A q \in DOMAIN teams'[m].problems :
                        (m # n \/ q # s.problem) =>
                            /\ m \in DOMAIN teams
                            /\ q \in DOMAIN teams[m].problems
                            /\ teams'[m].problems[q] = teams[m].problems[q]]_vars

\* The last command was a submit on the frozen board that put a wrong
\* attempt behind a hidden Accepted submission; the problem is unsolved.
C18_Witness ==
    /\ frozen
    /\ pc = "idle"
    /\ out.msg = ""
    /\ \E n \in DOMAIN teams, p \in SubmitProblems :
         /\ StatusIn(teams, n, p).frozenSubs
                = <<Submission(p, "Accepted", 21), Submission(p, "Wrong_Answer", 1)>>
         /\ ~StatusIn(teams, n, p).solved
         /\ StatusIn(teams, n, p).wrongAttempts = 0

\* C19: the rank queryRanking reports for a known team is between 1 and the
\* number of registered teams.  Stated here for the teams addTeam has
\* registered, all of which queryRanking accepts as known.
C19_RankWithinRange ==
    (out.msg = "[Info]Complete query ranking." /\ out.team \in RangeOf(teamNames))
        => out.x \in 1..Len(teamNames)

\* Every team-problem of tms is solved exactly when it is counted as solved
\* before the freeze.
SolvedIffCounted(tms) ==
    \A n \in DOMAIN tms : \A p \in DOMAIN tms[n].problems :
        tms[n].problems[p].solved = tms[n].problems[p].wasSolvedBeforeFreeze

\* C20: in every reachable state solved and wasSolvedBeforeFreeze agree on
\* every team-problem; a successful freeze changes nothing but the frozen
\* flag; and on the frozen board a problem whose hidden queue has just grown
\* is unsolved and stays unsolved while its queue is non-empty.
C20_SolvedIffCountedPreFreeze ==
    [][/\ SolvedIffCounted(teams)
       /\ SolvedIffCounted(teams')
       /\ out'.msg = "[Info]Freeze scoreboard." =>
            /\ ~frozen
            /\ frozen'
            /\ UNCHANGED <<teams, teamNames, started, durationTime, problemCount,
                           problemList, lastRanking, pc, steps>>
       /\ \A n \in DOMAIN teams' : \A p \in DOMAIN teams'[n].problems :
            LET ps == StatusIn(teams, n, p)
                qs == teams'[n].problems[p]
            IN (/\ frozen'
                /\ qs.frozenSubs # <<>>
                /\ \/ qs.frozenSubs # ps.frozenSubs
                   \/ frozen /\ ~ps.solved) => ~qs.solved]_vars

\* A freeze has just succeeded on a board with a solved problem and an
\* unsolved problem that has a wrong attempt.
C20_Witness ==
    /\ out.msg = "[Info]Freeze scoreboard."
    /\ \E n \in DOMAIN teams : \E p \in DOMAIN teams[n].problems :
            teams[n].problems[p].solved
    /\ \E n \in DOMAIN teams : \E p \in DOMAIN teams[n].problems :
            ~teams[n].problems[p].solved /\ teams[n].problems[p].wrongAttempts = 1

====
